---- MODULE Spec2Model ----
(***************************************************************************)
(* Model of the stream endpoint of ytm-proxy-server.                       *)
(*                                                                         *)
(* Three handlers of the endpoint are modelled, one request per behaviour: *)
(*   impl = "vercel"  : src/api/streams/[id].ts, handler(req, res)         *)
(*   impl = "fastify" : src/server.ts, app.get('/api/streams/:id')         *)
(*   impl = "legacy"  : src/unnamed/part_000, handler(req, res)            *)
(* The collaborators (ytdl.getInfo, undici request, ytdl stream) are the   *)
(* environment: their results are drawn from small sets.                   *)
(***************************************************************************)
EXTENDS Integers, Sequences, FiniteSets, TLC

VARIABLES
    impl,       \* which handler serves the request
    prober,     \* behaviour of the HEAD prober: "any" or "failing"
    req,        \* the request: method, id, range header ("" = absent)
    pc,         \* position of the handler
    userAgent,  \* index into USER_AGENTS chosen for the request, 0 = not chosen
    i,          \* loop index of the approaches / streamApproaches loop (1-based)
    attempts,   \* metadata attempts issued so far, with their outcome
    info,       \* formats of the resolved metadata
    resolved,   \* TRUE once a getInfo call has returned
    fmt,        \* result of pickAudioFormat
    head,       \* outcome of the HEAD probe
    upstream,   \* upstream calls issued so far, in order
    stream,     \* state of the ytdl stream
    caught,     \* error caught by the handler's outer catch
    res         \* the HTTP response object

vars == <<impl, prober, req, pc, userAgent, i, attempts, info, resolved, fmt,
          head, upstream, stream, caught, res>>

(***************************************************************************)
(* Bounds                                                                  *)
(***************************************************************************)
MaxFormats == 3     \* longest format list given to pickAudioFormat
MaxChunks == 2      \* body chunks piped before the stream ends or fails

(***************************************************************************)
(* Program constants                                                       *)
(***************************************************************************)
NumUserAgents == 6      \* USER_AGENTS.length
NumApproaches == 3      \* approaches.length
NumStreamApproaches == 3 \* streamApproaches.length
NumUserAgentsLegacy == 4 \* USER_AGENTS.length in src/unnamed/part_000

Impls == {"vercel", "fastify", "legacy"}
Methods == {"GET", "OPTIONS", "POST"}
Ids == {"", "vid"}
Ranges == {"", "bytes=100-"}
ProberModes == {"any", "failing"}

\* audioBitrate of a format that carries none (undefined)
Absent == -1
Bitrates == {Absent, 0, 128}

\* statuses the HEAD probe may answer with
HeadStatuses == {100, 199, 200, 204, 302, 399, 400, 404, 500}
\* head when no probe has returned / when request() rejected
NoHead == 0
HeadThrew == -1

(***************************************************************************)
(* Formats                                                                 *)
(***************************************************************************)
Format(t, a, v, u, b) ==
    [itag |-> t, hasAudio |-> a, hasVideo |-> v, url |-> u, audioBitrate |-> b]

\* the null returned by pickAudioFormat
NullFormat == Format(0, FALSE, FALSE, "", Absent)

UrlOf(t) == "u" \o ToString(t)

\* what a format of a list may carry: hasAudio, hasVideo, whether it has a
\* url, audioBitrate
Shapes == BOOLEAN \X BOOLEAN \X BOOLEAN \X Bitrates

\* the format list of the shapes sh: the format at position t has itag t
\* and, if it has a url, the url UrlOf(t)
ListOf(sh) ==
    [ t \in DOMAIN sh |->
        Format(t, sh[t][1], sh[t][2], IF sh[t][3] THEN UrlOf(t) ELSE "", sh[t][4]) ]

\* format lists returned by ytdl.getInfo in the request model
InfoLists ==
    { <<>>,
      << Format(1, TRUE, TRUE, UrlOf(1), 128) >>,
      << Format(1, TRUE, FALSE, UrlOf(1), 128) >>,
      << Format(1, TRUE, TRUE, UrlOf(1), 128),
         Format(2, TRUE, FALSE, UrlOf(2), Absent),
         Format(3, TRUE, FALSE, UrlOf(3), 0) >> }

\* (x ?? 0)
Nullish0(b) == IF b = Absent THEN 0 ELSE b

\* the filter predicate f.hasAudio && !f.hasVideo && f.url
IsAudioOnlyWithUrl(f) == f.hasAudio /\ ~f.hasVideo /\ f.url # ""

\* CompareFn with the operands swapped: ascending order
CompareFnAscending(a, b) == Nullish0(a.audioBitrate) - Nullish0(b.audioBitrate)

\* the sort comparator (a, b) => (b.audioBitrate ?? 0) - (a.audioBitrate ?? 0)
CompareFn(a, b) == Nullish0(b.audioBitrate) - Nullish0(a.audioBitrate)

\* info.formats.filter(pred)
RECURSIVE Filter(_)
Filter(s) ==
    IF s = <<>> THEN <<>>
    ELSE IF IsAudioOnlyWithUrl(Head(s)) THEN <<Head(s)>> \o Filter(Tail(s))
         ELSE Filter(Tail(s))

\* Insert that puts x before the elements it ties with
RECURSIVE InsertBeforeEqual(_, _)
InsertBeforeEqual(s, x) ==
    IF s = <<>> THEN <<x>>
    ELSE IF Nullish0(x.audioBitrate) - Nullish0(Head(s).audioBitrate) < 0
         THEN <<Head(s)>> \o InsertBeforeEqual(Tail(s), x)
         ELSE <<x>> \o s

\* insert x into the sorted sequence s, after every element that does not
\* compare greater than x (Array.prototype.sort is stable)
RECURSIVE Insert(_, _)
Insert(s, x) ==
    IF s = <<>> THEN <<x>>
    ELSE IF CompareFn(Head(s), x) <= 0 THEN <<Head(s)>> \o Insert(Tail(s), x)
         ELSE <<x>> \o s

\* s.sort(CompareFn)
RECURSIVE Sort(_)
Sort(s) ==
    IF s = <<>> THEN <<>>
    ELSE Insert(Sort(SubSeq(s, 1, Len(s) - 1)), s[Len(s)])

\* pickAudioFormat(info)
pickAudioFormat(formats) ==
    LET sorted == Sort(Filter(formats))
    IN  IF sorted = <<>> THEN NullFormat ELSE sorted[1]

(***************************************************************************)
(* Errors                                                                  *)
(***************************************************************************)
\* an Error thrown by a collaborator: bot / unavail tell whether its message
\* includes "Sign in to confirm you're not a bot" / "Video unavailable";
\* src names the call that threw it
Err(b, u, s) == [bot |-> b, unavail |-> u, src |-> s]
NoError == Err(FALSE, FALSE, "none")
ErrorsFrom(s) == { Err(b, u, s) : b \in BOOLEAN, u \in BOOLEAN }

(***************************************************************************)
(* The response object                                                     *)
(***************************************************************************)
HeaderNames ==
    { "Access-Control-Allow-Origin", "Access-Control-Allow-Methods",
      "Access-Control-Allow-Headers", "Accept-Ranges", "Content-Type",
      "Content-Range", "Location" }

NoBody == [error |-> "", code |-> ""]

\* a fresh ServerResponse: statusCode defaults to 200, nothing sent
NewResponse ==
    [ statusCode |-> 200,
      headers |-> [h \in HeaderNames |-> ""],
      body |-> NoBody,
      chunks |-> 0,
      headersSent |-> FALSE,
      finished |-> FALSE ]

\* res.setHeader(name, value)
SetHeader(r, name, value) ==
    [r EXCEPT !.headers = [@ EXCEPT ![name] = value]]

\* res.status(code).end()
StatusEnd(r, code) ==
    [r EXCEPT !.statusCode = code, !.headersSent = TRUE, !.finished = TRUE]

\* res.status(code).json(body)
StatusJson(r, code, body) ==
    [SetHeader(r, "Content-Type", "application/json")
        EXCEPT !.statusCode = code, !.body = body,
               !.headersSent = TRUE, !.finished = TRUE]

\* res.redirect(302, url)
Redirect(r, url) ==
    [SetHeader(r, "Location", url)
        EXCEPT !.statusCode = 302, !.headersSent = TRUE, !.finished = TRUE]

\* the three CORS headers set on entry
SetCors(r) ==
    SetHeader(SetHeader(SetHeader(r,
        "Access-Control-Allow-Origin", "*"),
        "Access-Control-Allow-Methods", "GET, OPTIONS"),
        "Access-Control-Allow-Headers", "Range, Content-Type")

\* the response the client has received a status line of
Sent(code) == res.headersSent /\ res.statusCode = code

(***************************************************************************)
(* Upstream calls                                                          *)
(***************************************************************************)
\* UaOf with the second approach sending the next user agent of the table
UaOfRedrawn(n, ua) ==
    IF n = 1 THEN ua ELSE IF n = 2 THEN (ua % NumUserAgents) + 1 ELSE 0

\* User-Agent sent by approach n of a ladder (1 full headers, 2 minimal
\* headers, 3 no options), 0 = none
UaOf(n, ua) == IF n < 3 THEN ua ELSE 0
\* Range sent by stream approach n, "" = none
RangeOf(n, range) == IF n < 3 THEN range ELSE ""

GetInfoCall(n, ua) ==
    [op |-> "getInfo", n |-> n, ua |-> ua, range |-> "", url |-> ""]
HeadCall(u) ==
    [op |-> "head", n |-> 0, ua |-> 0, range |-> "", url |-> u]
YtdlCall(n, ua, range) ==
    [op |-> "ytdl", n |-> n, ua |-> ua, range |-> range, url |-> ""]

\* name of the call an error comes from
SrcOf(op, n) == op \o ToString(n)

\* one entry of the attempts log
Attempt(n, o, e, fl) == [n |-> n, outcome |-> o, err |-> e, formats |-> fl]

(***************************************************************************)
(* Initial state: a request is about to arrive                             *)
(***************************************************************************)
Init ==
    /\ impl \in Impls
    /\ prober \in ProberModes
    /\ req \in [method : Methods, id : Ids, range : Ranges]
    \* app.get registers the Fastify route for GET only
    /\ impl = "fastify" => req.method = "GET"
    /\ pc = "start"
    /\ userAgent = 0
    /\ i = 0
    /\ attempts = <<>>
    /\ info = <<>>
    /\ resolved = FALSE
    /\ fmt = NullFormat
    /\ head = NoHead
    /\ upstream = <<>>
    /\ stream = "none"
    /\ caught = NoError
    /\ res = NewResponse

(***************************************************************************)
(* src/api/streams/[id].ts : handler                                       *)
(***************************************************************************)
\* IsLastApproach giving up one approach early
IsLastApproachEarly(n) == n = NumApproaches - 1

\* i === approaches.length - 1 (1-based here)
IsLastApproach(n) == n = NumApproaches

\* IsLastStreamApproach giving up one approach early
IsLastStreamApproachEarly(n) == n = NumStreamApproaches - 1

\* i === streamApproaches.length - 1 (1-based here)
IsLastStreamApproach(n) == n = NumStreamApproaches

\* Reachable with the upper bound included
ReachableUpTo400(status) == status >= 200 /\ status <= 400

\* head.statusCode >= 200 && head.statusCode < 400
Reachable(status) == status >= 200 /\ status < 400

\* CatchResponse testing 'Video unavailable' before the bot message
CatchResponseUnavailFirst(r, e) ==
    IF e.unavail
    THEN StatusJson(r, 404,
            [error |-> "Video not found or unavailable", code |-> ""])
    ELSE IF e.bot
    THEN StatusJson(r, 429,
            [error |-> "YouTube bot detection triggered. Please try again later.",
             code |-> "BOT_DETECTED"])
    ELSE StatusJson(r, 500, [error |-> "Internal server error", code |-> ""])

\* CatchResponse putting the origin of the error into the 500 body
CatchResponseLeaksSource(r, e) ==
    IF e.bot
    THEN StatusJson(r, 429,
            [error |-> "YouTube bot detection triggered. Please try again later.",
             code |-> "BOT_DETECTED"])
    ELSE IF e.unavail
    THEN StatusJson(r, 404,
            [error |-> "Video not found or unavailable", code |-> ""])
    ELSE StatusJson(r, 500,
            [error |-> "Internal server error: " \o e.src, code |-> ""])

\* the outer catch: map the error to the response
CatchResponse(r, e) ==
    IF e.bot
    THEN StatusJson(r, 429,
            [error |-> "YouTube bot detection triggered. Please try again later.",
             code |-> "BOT_DETECTED"])
    ELSE IF e.unavail
    THEN StatusJson(r, 404,
            [error |-> "Video not found or unavailable", code |-> ""])
    ELSE StatusJson(r, 500, [error |-> "Internal server error", code |-> ""])

\* V_Entry without the id check: a GET without id goes on to the delay
V_EntryNoIdCheck ==
    /\ impl = "vercel"
    /\ pc = "start"
    /\ LET r == SetCors(res)
       IN  IF req.method = "OPTIONS"
           THEN res' = StatusEnd(r, 200) /\ pc' = "done"
           ELSE IF req.method # "GET"
           THEN /\ res' = StatusJson(r, 405,
                            [error |-> "Method not allowed", code |-> ""])
                /\ pc' = "done"
           ELSE res' = r /\ pc' = "delay"
    /\ UNCHANGED <<impl, prober, req, userAgent, i, attempts, info, resolved,
                   fmt, head, upstream, stream, caught>>

\* V_Entry with the id check moved before the preflight and method checks
V_EntryIdFirst ==
    /\ impl = "vercel"
    /\ pc = "start"
    /\ LET r == SetCors(res)
       IN  IF req.id = ""
           THEN /\ res' = StatusJson(r, 400,
                            [error |-> "Video ID is required", code |-> ""])
                /\ pc' = "done"
           ELSE IF req.method = "OPTIONS"
           THEN res' = StatusEnd(r, 200) /\ pc' = "done"
           ELSE IF req.method # "GET"
           THEN /\ res' = StatusJson(r, 405,
                            [error |-> "Method not allowed", code |-> ""])
                /\ pc' = "done"
           ELSE res' = r /\ pc' = "delay"
    /\ UNCHANGED <<impl, prober, req, userAgent, i, attempts, info, resolved,
                   fmt, head, upstream, stream, caught>>

\* CORS headers, preflight, method check, id check; then await randomDelay()
V_Entry ==
    /\ impl = "vercel"
    /\ pc = "start"
    /\ LET r == SetCors(res)
       IN  IF req.method = "OPTIONS"
           THEN res' = StatusEnd(r, 200) /\ pc' = "done"
           ELSE IF req.method # "GET"
           THEN /\ res' = StatusJson(r, 405,
                            [error |-> "Method not allowed", code |-> ""])
                /\ pc' = "done"
           ELSE IF req.id = ""
           THEN /\ res' = StatusJson(r, 400,
                            [error |-> "Video ID is required", code |-> ""])
                /\ pc' = "done"
           ELSE res' = r /\ pc' = "delay"
    /\ UNCHANGED <<impl, prober, req, userAgent, i, attempts, info, resolved,
                   fmt, head, upstream, stream, caught>>

\* the delay elapses: getRandomUserAgent(), then the first approach is called
V_DelayDone ==
    /\ impl = "vercel"
    /\ pc = "delay"
    /\ \E ua \in 1..NumUserAgents :
        /\ userAgent' = ua
        /\ upstream' = Append(upstream, GetInfoCall(1, UaOf(1, ua)))
    /\ i' = 1
    /\ attempts' = Append(attempts, Attempt(1, "pending", NoError, <<>>))
    /\ pc' = "getInfo"
    /\ UNCHANGED <<impl, prober, req, info, resolved, fmt, head, stream,
                   caught, res>>

\* GetInfoOk without the break: the loop goes on to the next approach
GetInfoOkNoBreak ==
    /\ pc = "getInfo"
    /\ \E fl \in InfoLists :
        /\ attempts' = IF impl = "vercel" /\ i < NumApproaches
                       THEN Append([attempts EXCEPT ![i] = Attempt(i, "ok", NoError, fl)],
                                   Attempt(i + 1, "pending", NoError, <<>>))
                       ELSE [attempts EXCEPT ![i] = Attempt(i, "ok", NoError, fl)]
        /\ info' = fl
    /\ resolved' = TRUE
    /\ IF impl = "vercel" /\ i < NumApproaches
       THEN /\ i' = i + 1
            /\ upstream' = Append(upstream,
                              GetInfoCall(i + 1, UaOf(i + 1, userAgent)))
            /\ UNCHANGED pc
       ELSE /\ pc' = "resolved"
            /\ UNCHANGED <<i, upstream>>
    /\ UNCHANGED <<impl, prober, req, userAgent, fmt, head, stream, caught, res>>

\* await approaches[i]() resolves: info is set and the loop is left
GetInfoOk ==
    /\ pc = "getInfo"
    /\ \E fl \in InfoLists :
        /\ attempts' = [attempts EXCEPT ![i] = Attempt(i, "ok", NoError, fl)]
        /\ info' = fl
    /\ resolved' = TRUE
    /\ pc' = "resolved"
    /\ UNCHANGED <<impl, prober, req, userAgent, i, fmt, head, upstream,
                   stream, caught, res>>

\* await approaches[i]() rejects: rethrown to the outer catch if it was the
\* last approach, else the next approach is called
V_GetInfoErr ==
    /\ impl = "vercel"
    /\ pc = "getInfo"
    /\ \E e \in ErrorsFrom(SrcOf("getInfo", i)) :
        /\ attempts' = IF IsLastApproach(i)
                       THEN [attempts EXCEPT ![i] = Attempt(i, "err", e, <<>>)]
                       ELSE Append([attempts EXCEPT ![i] = Attempt(i, "err", e, <<>>)],
                                   Attempt(i + 1, "pending", NoError, <<>>))
        /\ IF IsLastApproach(i)
           THEN /\ caught' = e
                /\ res' = CatchResponse(res, e)
                /\ pc' = "done"
                /\ UNCHANGED <<i, upstream>>
           ELSE /\ i' = i + 1
                /\ upstream' = Append(upstream,
                                  GetInfoCall(i + 1, UaOf(i + 1, userAgent)))
                /\ UNCHANGED <<caught, res, pc>>
    /\ UNCHANGED <<impl, prober, req, userAgent, info, resolved, fmt, head,
                   stream>>

\* SelectFormat without the if (fmt?.url) test: the HEAD request is always sent
SelectFormatProbesAnyway ==
    /\ pc = "resolved"
    /\ fmt' = pickAudioFormat(info)
    /\ upstream' = Append(upstream, HeadCall(fmt'.url))
    /\ pc' = "probe"
    /\ UNCHANGED <<impl, prober, req, userAgent, i, attempts, info, resolved,
                   head, stream, caught, res>>

\* const fmt = pickAudioFormat(info); if (fmt?.url) the HEAD request is sent
SelectFormat ==
    /\ pc = "resolved"
    /\ fmt' = pickAudioFormat(info)
    /\ IF fmt'.url # ""
       THEN /\ upstream' = Append(upstream, HeadCall(fmt'.url))
            /\ pc' = "probe"
       ELSE /\ pc' = "proxy"
            /\ UNCHANGED upstream
    /\ UNCHANGED <<impl, prober, req, userAgent, i, attempts, info, resolved,
                   head, stream, caught, res>>

\* ProbeReturn without the return before res.redirect: the handler goes on
ProbeReturnFallsThrough ==
    /\ pc = "probe"
    /\ prober = "any"
    /\ \E s \in HeadStatuses :
        /\ head' = s
        /\ res' = IF Reachable(s)
                  THEN Redirect(
                          IF impl = "fastify"
                          THEN SetHeader(res, "Access-Control-Allow-Origin", "*")
                          ELSE res,
                          fmt.url)
                  ELSE res
        /\ pc' = "proxy"
    /\ UNCHANGED <<impl, prober, req, userAgent, i, attempts, info, resolved,
                   fmt, upstream, stream, caught>>

\* the HEAD request answers: redirect if the status is in range
ProbeReturn ==
    /\ pc = "probe"
    /\ prober = "any"
    /\ \E s \in HeadStatuses :
        /\ head' = s
        /\ IF Reachable(s)
           THEN /\ res' = Redirect(
                            IF impl = "fastify"
                            THEN SetHeader(res, "Access-Control-Allow-Origin", "*")
                            ELSE res,
                            fmt.url)
                /\ pc' = "done"
           ELSE /\ pc' = "proxy"
                /\ UNCHANGED res
    /\ UNCHANGED <<impl, prober, req, userAgent, i, attempts, info, resolved,
                   fmt, upstream, stream, caught>>

\* ProbeThrow without the inner try: the rejection reaches the outer catch
ProbeThrowRethrows ==
    /\ pc = "probe"
    /\ head' = HeadThrew
    /\ caught' = Err(FALSE, FALSE, "head")
    /\ res' = StatusJson(res, 500, [error |-> "Internal server error", code |-> ""])
    /\ pc' = "done"
    /\ UNCHANGED <<impl, prober, req, userAgent, i, attempts, info, resolved,
                   fmt, upstream, stream>>

\* the HEAD request rejects: catch {} falls through to the proxy
ProbeThrow ==
    /\ pc = "probe"
    /\ head' = HeadThrew
    /\ pc' = "proxy"
    /\ UNCHANGED <<impl, prober, req, userAgent, i, attempts, info, resolved,
                   fmt, upstream, stream, caught, res>>

\* V_ProxyHeaders that never sets Content-Range
V_ProxyHeadersNoContentRange ==
    /\ impl = "vercel"
    /\ pc = "proxy"
    /\ res' = SetHeader(SetHeader(res, "Accept-Ranges", "bytes"),
                        "Content-Type", "audio/webm")
    /\ i' = 1
    /\ pc' = "open"
    /\ UNCHANGED <<impl, prober, req, userAgent, attempts, info, resolved,
                   fmt, head, upstream, stream, caught>>

\* rangeHeader, Accept-Ranges, Content-Type, Content-Range
V_ProxyHeaders ==
    /\ impl = "vercel"
    /\ pc = "proxy"
    /\ LET r == SetHeader(SetHeader(res, "Accept-Ranges", "bytes"),
                          "Content-Type", "audio/webm")
       IN  res' = IF req.range # ""
                  THEN SetHeader(r, "Content-Range", req.range)
                  ELSE r
    /\ i' = 1
    /\ pc' = "open"
    /\ UNCHANGED <<impl, prober, req, userAgent, attempts, info, resolved,
                   fmt, head, upstream, stream, caught>>

\* streamApproaches[i]() returns: error listener attached, stream piped
V_OpenOk ==
    /\ impl = "vercel"
    /\ pc = "open"
    /\ upstream' = Append(upstream,
                      YtdlCall(i, UaOf(i, userAgent), RangeOf(i, req.range)))
    /\ stream' = "open"
    /\ pc' = "piping"
    /\ UNCHANGED <<impl, prober, req, userAgent, i, attempts, info, resolved,
                   fmt, head, caught, res>>

\* streamApproaches[i]() throws
V_OpenThrow ==
    /\ impl = "vercel"
    /\ pc = "open"
    /\ upstream' = Append(upstream,
                      YtdlCall(i, UaOf(i, userAgent), RangeOf(i, req.range)))
    /\ \E e \in ErrorsFrom(SrcOf("ytdl", i)) :
        IF IsLastStreamApproach(i)
        THEN /\ caught' = e
             /\ res' = CatchResponse(res, e)
             /\ pc' = "done"
             /\ UNCHANGED i
        ELSE /\ i' = i + 1
             /\ UNCHANGED <<caught, res, pc>>
    /\ UNCHANGED <<impl, prober, req, userAgent, attempts, info, resolved,
                   fmt, head, stream>>

\* pipe: a chunk of the stream is written to the response
V_StreamData ==
    /\ impl = "vercel"
    /\ pc = "piping"
    /\ stream = "open"
    /\ res.chunks < MaxChunks
    /\ res' = [res EXCEPT !.headersSent = TRUE, !.chunks = @ + 1]
    /\ UNCHANGED <<impl, prober, req, pc, userAgent, i, attempts, info,
                   resolved, fmt, head, upstream, stream, caught>>

\* pipe: the stream ends, the response is ended
V_StreamEnd ==
    /\ impl = "vercel"
    /\ pc = "piping"
    /\ stream = "open"
    /\ stream' = "ended"
    /\ res' = [res EXCEPT !.headersSent = TRUE, !.finished = TRUE]
    /\ UNCHANGED <<impl, prober, req, pc, userAgent, i, attempts, info,
                   resolved, fmt, head, upstream, caught>>

\* V_StreamError without the res.headersSent test: the 500 is always sent
V_StreamErrorAlways500 ==
    /\ impl = "vercel"
    /\ pc = "piping"
    /\ stream = "open"
    /\ stream' = "errored"
    /\ res' = StatusJson(res, 500,
                 [error |-> "Stream error occurred", code |-> ""])
    /\ UNCHANGED <<impl, prober, req, pc, userAgent, i, attempts, info,
                   resolved, fmt, head, upstream, caught>>

\* ytdlStream.on('error'): 500 unless the headers were sent; pipe does not
\* end the response when its source fails
V_StreamError ==
    /\ impl = "vercel"
    /\ pc = "piping"
    /\ stream = "open"
    /\ stream' = "errored"
    /\ res' = IF ~res.headersSent
              THEN StatusJson(res, 500,
                      [error |-> "Stream error occurred", code |-> ""])
              ELSE res
    /\ UNCHANGED <<impl, prober, req, pc, userAgent, i, attempts, info,
                   resolved, fmt, head, upstream, caught>>

(***************************************************************************)
(* src/server.ts : app.get('/api/streams/:id')                             *)
(***************************************************************************)
\* the catch of the route: reply.code(404).send({ error: 'Stream not found' })
F_CatchResponse(r) ==
    StatusJson(r, 404, [error |-> "Stream not found", code |-> ""])

\* const { id } = req.params; ytdl.getInfo(id) is called
F_Entry ==
    /\ impl = "fastify"
    /\ pc = "start"
    /\ i' = 1
    /\ attempts' = Append(attempts, Attempt(1, "pending", NoError, <<>>))
    /\ upstream' = Append(upstream, GetInfoCall(1, 0))
    /\ pc' = "getInfo"
    /\ UNCHANGED <<impl, prober, req, userAgent, info, resolved, fmt, head,
                   stream, caught, res>>

\* ytdl.getInfo(id) rejects
F_GetInfoErr ==
    /\ impl = "fastify"
    /\ pc = "getInfo"
    /\ \E e \in ErrorsFrom(SrcOf("getInfo", i)) :
        /\ attempts' = [attempts EXCEPT ![i] = Attempt(i, "err", e, <<>>)]
        /\ caught' = e
    /\ res' = F_CatchResponse(res)
    /\ pc' = "done"
    /\ UNCHANGED <<impl, prober, req, userAgent, i, info, resolved, fmt, head,
                   upstream, stream>>

\* ytdl(id, ...) returns: headers set, reply.send(ytdlStream)
F_OpenOk ==
    /\ impl = "fastify"
    /\ pc = "proxy"
    /\ upstream' = Append(upstream, YtdlCall(1, 0, req.range))
    /\ stream' = "open"
    /\ res' = SetHeader(SetHeader(SetHeader(res,
                "Accept-Ranges", "bytes"),
                "Access-Control-Allow-Origin", "*"),
                "Content-Type", "audio/webm")
    /\ pc' = "handed"
    /\ UNCHANGED <<impl, prober, req, userAgent, i, attempts, info, resolved,
                   fmt, head, caught>>

\* ytdl(id, ...) throws
F_OpenThrow ==
    /\ impl = "fastify"
    /\ pc = "proxy"
    /\ upstream' = Append(upstream, YtdlCall(1, 0, req.range))
    /\ \E e \in ErrorsFrom(SrcOf("ytdl", 1)) : caught' = e
    /\ res' = F_CatchResponse(res)
    /\ pc' = "done"
    /\ UNCHANGED <<impl, prober, req, userAgent, i, attempts, info, resolved,
                   fmt, head, stream>>

(***************************************************************************)
(* src/unnamed/part_000 : handler                                          *)
(* Its inner catches retry once, with no options, and only when the error  *)
(* is a filesystem error (code EROFS or 'read-only file system').          *)
(***************************************************************************)
\* L_Entry with the id check moved before the preflight and method checks
L_EntryIdFirst ==
    /\ impl = "legacy"
    /\ pc = "start"
    /\ LET r == SetCors(res)
       IN  IF req.id = ""
           THEN /\ res' = StatusJson(r, 400,
                            [error |-> "Video ID is required", code |-> ""])
                /\ pc' = "done"
           ELSE IF req.method = "OPTIONS"
           THEN res' = StatusEnd(r, 200) /\ pc' = "done"
           ELSE IF req.method # "GET"
           THEN /\ res' = StatusJson(r, 405,
                            [error |-> "Method not allowed", code |-> ""])
                /\ pc' = "done"
           ELSE res' = r /\ pc' = "delay"
    /\ UNCHANGED <<impl, prober, req, userAgent, i, attempts, info, resolved,
                   fmt, head, upstream, stream, caught>>

\* CORS headers, preflight, method check, id check; then await randomDelay()
L_Entry ==
    /\ impl = "legacy"
    /\ pc = "start"
    /\ LET r == SetCors(res)
       IN  IF req.method = "OPTIONS"
           THEN res' = StatusEnd(r, 200) /\ pc' = "done"
           ELSE IF req.method # "GET"
           THEN /\ res' = StatusJson(r, 405,
                            [error |-> "Method not allowed", code |-> ""])
                /\ pc' = "done"
           ELSE IF req.id = ""
           THEN /\ res' = StatusJson(r, 400,
                            [error |-> "Video ID is required", code |-> ""])
                /\ pc' = "done"
           ELSE res' = r /\ pc' = "delay"
    /\ UNCHANGED <<impl, prober, req, userAgent, i, attempts, info, resolved,
                   fmt, head, upstream, stream, caught>>

\* the delay elapses: getRandomUserAgent(), ytdl.getInfo with the headers
L_DelayDone ==
    /\ impl = "legacy"
    /\ pc = "delay"
    /\ \E ua \in 1..NumUserAgentsLegacy :
        /\ userAgent' = ua
        /\ upstream' = Append(upstream, GetInfoCall(1, ua))
    /\ i' = 1
    /\ attempts' = Append(attempts, Attempt(1, "pending", NoError, <<>>))
    /\ pc' = "getInfo"
    /\ UNCHANGED <<impl, prober, req, info, resolved, fmt, head, stream,
                   caught, res>>

\* ytdl.getInfo rejects: the first call is retried with no options if the
\* error is a filesystem error (fs); any other rejection reaches the outer
\* catch
L_GetInfoErr ==
    /\ impl = "legacy"
    /\ pc = "getInfo"
    /\ \E e \in ErrorsFrom(SrcOf("getInfo", i)), fs \in BOOLEAN :
        IF i = 1 /\ fs
        THEN /\ attempts' = Append([attempts EXCEPT ![i] = Attempt(i, "err", e, <<>>)],
                                   Attempt(2, "pending", NoError, <<>>))
             /\ i' = 2
             /\ upstream' = Append(upstream, GetInfoCall(2, 0))
             /\ UNCHANGED <<caught, res, pc>>
        ELSE /\ attempts' = [attempts EXCEPT ![i] = Attempt(i, "err", e, <<>>)]
             /\ caught' = e
             /\ res' = CatchResponse(res, e)
             /\ pc' = "done"
             /\ UNCHANGED <<i, upstream>>
    /\ UNCHANGED <<impl, prober, req, userAgent, info, resolved, fmt, head,
                   stream>>

\* rangeHeader, Accept-Ranges, Content-Type, Content-Range
L_ProxyHeaders ==
    /\ impl = "legacy"
    /\ pc = "proxy"
    /\ LET r == SetHeader(SetHeader(res, "Accept-Ranges", "bytes"),
                          "Content-Type", "audio/webm")
       IN  res' = IF req.range # ""
                  THEN SetHeader(r, "Content-Range", req.range)
                  ELSE r
    /\ i' = 1
    /\ pc' = "open"
    /\ UNCHANGED <<impl, prober, req, userAgent, attempts, info, resolved,
                   fmt, head, upstream, stream, caught>>

\* the ytdl call of the try (i = 1: headers, User-Agent, Range) or of its
\* catch (i = 2: no requestOptions)
L_YtdlCall ==
    IF i = 1 THEN YtdlCall(1, userAgent, req.range) ELSE YtdlCall(2, 0, "")

\* ytdl(id, ...) returns: error listener attached, stream piped
L_OpenOk ==
    /\ impl = "legacy"
    /\ pc = "open"
    /\ upstream' = Append(upstream, L_YtdlCall)
    /\ stream' = "open"
    /\ pc' = "piping"
    /\ UNCHANGED <<impl, prober, req, userAgent, i, attempts, info, resolved,
                   fmt, head, caught, res>>

\* ytdl(id, ...) throws: the first call is retried with no options if the
\* error is a filesystem error (fs); any other throw reaches the outer catch
L_OpenThrow ==
    /\ impl = "legacy"
    /\ pc = "open"
    /\ upstream' = Append(upstream, L_YtdlCall)
    /\ \E e \in ErrorsFrom(SrcOf("ytdl", i)), fs \in BOOLEAN :
        IF i = 1 /\ fs
        THEN /\ i' = 2
             /\ UNCHANGED <<caught, res, pc>>
        ELSE /\ caught' = e
             /\ res' = CatchResponse(res, e)
             /\ pc' = "done"
             /\ UNCHANGED i
    /\ UNCHANGED <<impl, prober, req, userAgent, attempts, info, resolved,
                   fmt, head, stream>>

\* pipe: a chunk of the stream is written to the response
L_StreamData ==
    /\ impl = "legacy"
    /\ pc = "piping"
    /\ stream = "open"
    /\ res.chunks < MaxChunks
    /\ res' = [res EXCEPT !.headersSent = TRUE, !.chunks = @ + 1]
    /\ UNCHANGED <<impl, prober, req, pc, userAgent, i, attempts, info,
                   resolved, fmt, head, upstream, stream, caught>>

\* pipe: the stream ends, the response is ended
L_StreamEnd ==
    /\ impl = "legacy"
    /\ pc = "piping"
    /\ stream = "open"
    /\ stream' = "ended"
    /\ res' = [res EXCEPT !.headersSent = TRUE, !.finished = TRUE]
    /\ UNCHANGED <<impl, prober, req, pc, userAgent, i, attempts, info,
                   resolved, fmt, head, upstream, caught>>

\* ytdlStream.on('error'): 500 unless the headers were sent
L_StreamError ==
    /\ impl = "legacy"
    /\ pc = "piping"
    /\ stream = "open"
    /\ stream' = "errored"
    /\ res' = IF ~res.headersSent
              THEN StatusJson(res, 500,
                      [error |-> "Stream error occurred", code |-> ""])
              ELSE res
    /\ UNCHANGED <<impl, prober, req, pc, userAgent, i, attempts, info,
                   resolved, fmt, head, upstream, caught>>

(***************************************************************************)
(* Specifications                                                          *)
(***************************************************************************)
Next ==
    \/ V_Entry
    \/ V_DelayDone
    \/ GetInfoOk
    \/ V_GetInfoErr
    \/ SelectFormat
    \/ ProbeReturn
    \/ ProbeThrow
    \/ V_ProxyHeaders
    \/ V_OpenOk
    \/ V_OpenThrow
    \/ V_StreamData
    \/ V_StreamEnd
    \/ V_StreamError
    \/ F_Entry
    \/ F_GetInfoErr
    \/ F_OpenOk
    \/ F_OpenThrow
    \/ L_Entry
    \/ L_DelayDone
    \/ L_GetInfoErr
    \/ L_ProxyHeaders
    \/ L_OpenOk
    \/ L_OpenThrow
    \/ L_StreamData
    \/ L_StreamEnd
    \/ L_StreamError

Spec == Init /\ [][Next]_vars

(***************************************************************************)
(* pickAudioFormat on every format list: the handler stands at the call    *)
(* of pickAudioFormat with an arbitrary resolved format list.              *)
(***************************************************************************)
InitPick ==
    /\ impl = "vercel"
    /\ prober = "any"
    /\ req = [method |-> "GET", id |-> "vid", range |-> ""]
    /\ pc = "resolved"
    /\ userAgent = 1
    /\ i = 1
    /\ \E n \in 0..MaxFormats : \E sh \in [1..n -> Shapes] : info = ListOf(sh)
    /\ attempts = << Attempt(1, "ok", NoError, info) >>
    /\ resolved = TRUE
    /\ fmt = NullFormat
    /\ head = NoHead
    /\ upstream = << GetInfoCall(1, 1) >>
    /\ stream = "none"
    /\ caught = NoError
    /\ res = SetCors(NewResponse)

NextPick == SelectFormat

SpecPick == InitPick /\ [][NextPick]_vars

(***************************************************************************)
(* Fairness: a continuation whose promise has settled is run by the event  *)
(* loop; getInfo, the HEAD request and ytdl() settle.  Stream events are   *)
(* not forced.                                                             *)
(***************************************************************************)
Fairness ==
    /\ WF_vars(V_Entry)
    /\ WF_vars(F_Entry)
    /\ WF_vars(V_DelayDone)
    /\ WF_vars(GetInfoOk \/ V_GetInfoErr \/ F_GetInfoErr)
    /\ WF_vars(SelectFormat)
    /\ WF_vars(ProbeReturn \/ ProbeThrow)
    /\ WF_vars(V_ProxyHeaders)
    /\ WF_vars(V_OpenOk \/ V_OpenThrow)
    /\ WF_vars(F_OpenOk \/ F_OpenThrow)
    /\ WF_vars(L_Entry)
    /\ WF_vars(L_DelayDone)
    /\ WF_vars(L_GetInfoErr)
    /\ WF_vars(L_ProxyHeaders)
    /\ WF_vars(L_OpenOk \/ L_OpenThrow)

LiveSpec == Spec /\ Fairness

(***************************************************************************)
(* Vocabulary of the properties                                            *)
(***************************************************************************)
\* the upstream calls of one kind, in order
CallsOf(op) == SelectSeq(upstream, LAMBDA c : c.op = op)

\* the handler has passed the delivery decision
DecisionMade == resolved /\ pc \notin {"getInfo", "resolved", "probe"}

\* a 302 to the selected format's URL was sent
Redirected ==
    /\ Sent(302)
    /\ res.finished
    /\ res.headers["Location"] = fmt.url

\* the handler went on to the proxy streamer
Proxied ==
    \/ pc \in {"proxy", "open", "piping", "handed"}
    \/ CallsOf("ytdl") # <<>>

\* the proxy streamer has been entered
Streaming ==
    \/ pc \in {"open", "piping", "handed"}
    \/ CallsOf("ytdl") # <<>>

\* positions of the candidates of info that qualify for selection
Qualifying ==
    { k \in 1..Len(info) :
        info[k].hasAudio /\ ~info[k].hasVideo /\ info[k].url # "" }

\* audioBitrate of info[k], absent counted as 0
BitrateAt(k) ==
    IF info[k].audioBitrate = Absent THEN 0 ELSE info[k].audioBitrate

\* pickAudioFormat has been applied to info
Picked == resolved /\ pc # "resolved" /\ pc # "getInfo"

(***************************************************************************)
(* C1: once the delivery decision is made, a 302 to the selected URL was   *)
(* sent iff a format was selected and the HEAD status is in [200,400);     *)
(* otherwise the handler proxies; exactly one of the two happens.          *)
(***************************************************************************)
C1_RedirectIffReachable ==
    DecisionMade =>
        /\ Redirected <=> (fmt # NullFormat /\ head >= 200 /\ head < 400)
        /\ Proxied <=> ~Redirected
        /\ Redirected => (pc = "done" /\ CallsOf("ytdl") = <<>>)
        /\ Proxied => ~Sent(302)

C1_Witness ==
    /\ DecisionMade
    /\ Redirected
    /\ head = 399

(***************************************************************************)
(* C2: metadata attempts are issued in the order 1,2,3, each one only      *)
(* after the one before it failed, and none after a success.               *)
(***************************************************************************)
C2_LadderSequential ==
    /\ Len(attempts) <= NumApproaches
    /\ Len(CallsOf("getInfo")) = Len(attempts)
    /\ \A k \in 1..Len(attempts) :
        /\ attempts[k].n = k
        /\ CallsOf("getInfo")[k].n = k
        /\ k < Len(attempts) => attempts[k].outcome = "err"
    /\ resolved => attempts[Len(attempts)].outcome = "ok"

C2_Witness ==
    /\ impl = "vercel"
    /\ Len(attempts) = 2
    /\ attempts[1].outcome = "err"
    /\ attempts[2].outcome = "ok"
    /\ pc = "piping"

(***************************************************************************)
(* C3: when attempts 1 and 2 fail and attempt 3 succeeds, the formats used *)
(* are those of attempt 3 and no error response stems from attempts 1, 2.  *)
(***************************************************************************)
C3_ThirdAttemptResultUsed ==
    impl = "vercel" =>
        /\ caught.src \notin {"getInfo1", "getInfo2"}
        /\ ( /\ Len(attempts) = 3
             /\ attempts[1].outcome = "err"
             /\ attempts[2].outcome = "err"
             /\ attempts[3].outcome = "ok" )
           => /\ resolved
              /\ info = attempts[3].formats
              /\ Picked => fmt = pickAudioFormat(attempts[3].formats)
              /\ caught.src \notin {"getInfo1", "getInfo2", "getInfo3"}
              /\ res.body.error # "" =>
                    (caught.src \in {"ytdl3"} \/ stream = "errored")

C3_Witness ==
    /\ impl = "vercel"
    /\ Len(attempts) = 3
    /\ attempts[1].outcome = "err"
    /\ attempts[2].outcome = "err"
    /\ attempts[3].outcome = "ok"
    /\ Picked
    /\ fmt.url = "u2"
    /\ Sent(302)

(***************************************************************************)
(* C4: when every attempt fails, the error handled is the one of the last  *)
(* attempt, and if it carries the bot message the response is 429 with     *)
(* code BOT_DETECTED.                                                      *)
(***************************************************************************)
C4_LastErrorDecides ==
    ( /\ impl = "vercel"
      /\ Len(attempts) = NumApproaches
      /\ attempts[NumApproaches].outcome = "err" )
    => /\ pc = "done"
       /\ caught = attempts[NumApproaches].err
       /\ caught.src = "getInfo3"
       /\ attempts[NumApproaches].err.bot =>
            /\ Sent(429)
            /\ res.finished
            /\ res.body.code = "BOT_DETECTED"

C4_Witness ==
    /\ impl = "vercel"
    /\ Len(attempts) = NumApproaches
    /\ ~attempts[1].err.bot /\ attempts[1].err.unavail
    /\ ~attempts[2].err.bot /\ ~attempts[2].err.unavail
    /\ attempts[3].outcome = "err"
    /\ attempts[3].err.bot /\ attempts[3].err.unavail
    /\ Sent(429)

(***************************************************************************)
(* C5: a resolution error caught by the handler (for a request with an id) *)
(* is answered with 429 and BOT_DETECTED if it carries the bot message,    *)
(* else 404 if it carries the unavailable message, else 500.               *)
(***************************************************************************)
C5_ErrorMapping ==
    (req.id # "" /\ caught.src \in {"getInfo1", "getInfo2", "getInfo3"}) =>
        /\ res.finished
        /\ caught.bot => (Sent(429) /\ res.body.code = "BOT_DETECTED")
        /\ (~caught.bot /\ caught.unavail) => Sent(404)
        /\ (~caught.bot /\ ~caught.unavail) => Sent(500)

(***************************************************************************)
(* C6: a GET request without id is answered with 400, and no upstream call *)
(* has been made when the 400 is sent.                                     *)
(***************************************************************************)
C6_MissingIdIs400 ==
    /\ (req.method = "GET" /\ req.id = "" /\ pc # "start") =>
            (Sent(400) /\ res.finished)
    /\ Sent(400) => upstream = <<>>

(***************************************************************************)
(* C7: pickAudioFormat returns a qualifying candidate of maximal bitrate   *)
(* (absent counted as 0), and null iff no candidate qualifies.             *)
(***************************************************************************)
C7_PickMaxBitrate ==
    Picked =>
        /\ fmt = NullFormat <=> Qualifying = {}
        /\ Qualifying # {} =>
            \E k \in Qualifying :
                /\ fmt = info[k]
                /\ \A j \in Qualifying : BitrateAt(j) <= BitrateAt(k)

C7_Witness ==
    /\ Picked
    /\ Len(info) = 3
    /\ Qualifying = {1, 3}
    /\ info[1].audioBitrate = 0
    /\ info[3].audioBitrate = 128
    /\ fmt = info[3]

(***************************************************************************)
(* C8: among the qualifying candidates of maximal bitrate, the one that    *)
(* comes first in the input is returned.                                   *)
(***************************************************************************)
C8_FirstWinsOnTie ==
    (Picked /\ Qualifying # {}) =>
        \E k \in Qualifying :
            /\ fmt = info[k]
            /\ \A j \in Qualifying :
                \/ BitrateAt(j) < BitrateAt(k)
                \/ (BitrateAt(j) = BitrateAt(k) /\ k <= j)

C8_Witness ==
    /\ Picked
    /\ Len(info) = 3
    /\ Qualifying = {2, 3}
    /\ info[2].audioBitrate = Absent
    /\ info[3].audioBitrate = 0
    /\ fmt = info[2]

(***************************************************************************)
(* C9: with a prober that always fails, every request whose metadata was   *)
(* resolved eventually enters the proxy streamer.                          *)
(***************************************************************************)
C9_FailedProbeReachesStreaming ==
    (prober = "failing" /\ resolved) ~> Streaming

C9_Witness ==
    /\ prober = "failing"
    /\ head = HeadThrew
    /\ pc = "piping"

(***************************************************************************)
(* C10: after a stream error, a 500 was sent only if no body byte had been *)
(* sent; if bytes had been sent, no 500 is sent and the response is ended. *)
(***************************************************************************)
C10_StreamErrorHandling ==
    stream = "errored" =>
        /\ Sent(500) => res.chunks = 0
        /\ res.chunks > 0 => (~Sent(500) /\ res.finished)

\* the errors thrown by a stream-creation call
YtdlSources == {"ytdl1", "ytdl2", "ytdl3"}

\* the response is the one the outer catch of [id].ts / part_000 gives for
\* an error with the flags of caught
AnsweredByFlags ==
    /\ res.finished
    /\ caught.bot => (Sent(429) /\ res.body.code = "BOT_DETECTED")
    /\ (~caught.bot /\ caught.unavail) => Sent(404)
    /\ (~caught.bot /\ ~caught.unavail) => Sent(500)

C12_StreamUsesResolvingProfile ==
    (impl = "vercel" /\ CallsOf("ytdl") # <<>>) =>
        CallsOf("ytdl")[1].n = attempts[Len(attempts)].n

(***************************************************************************)
(* C13: the upstream request that produced the stream carries the client's *)
(* Range value unchanged, and no Range when the client sent none.          *)
(***************************************************************************)
C13_RangeForwarded ==
    stream # "none" =>
        CallsOf("ytdl")[Len(CallsOf("ytdl"))].range = req.range

\* a stream was created and no error body has replaced the streamed response
StreamedResponse == stream # "none" /\ res.body = NoBody

(***************************************************************************)
(* C14: on the proxy path of [id].ts, from before the first body byte on,  *)
(* the response has Accept-Ranges: bytes, Content-Type: audio/webm and     *)
(* Access-Control-Allow-Origin: *, and it has a Content-Range header iff   *)
(* the client sent a Range header.                                         *)
(***************************************************************************)
C14_ProxyHeaders ==
    (impl # "fastify" /\ StreamedResponse) =>
        /\ res.statusCode = 200
        /\ res.headers["Accept-Ranges"] = "bytes"
        /\ res.headers["Content-Type"] = "audio/webm"
        /\ res.headers["Access-Control-Allow-Origin"] = "*"
        /\ res.headers["Content-Range"] # "" <=> req.range # ""
        /\ res.headers["Content-Range"] = req.range

C14_Witness ==
    /\ impl = "vercel"
    /\ req.range = "bytes=100-"
    /\ stream = "open"
    /\ res.chunks = 1
    /\ res.headers["Content-Range"] = "bytes=100-"

\* the three CORS headers are on the response
CorsHeadersSet ==
    /\ res.headers["Access-Control-Allow-Origin"] = "*"
    /\ res.headers["Access-Control-Allow-Methods"] = "GET, OPTIONS"
    /\ res.headers["Access-Control-Allow-Headers"] = "Range, Content-Type"

(***************************************************************************)
(* C15: an OPTIONS request is answered with 200, the CORS headers and an   *)
(* empty body, with or without an id, and no upstream call is made.        *)
(***************************************************************************)
C15_PreflightAlways200 ==
    (req.method = "OPTIONS" /\ pc # "start") =>
        /\ pc = "done"
        /\ Sent(200)
        /\ res.finished
        /\ CorsHeadersSet
        /\ res.body = NoBody
        /\ res.chunks = 0
        /\ upstream = <<>>

C15_Witness ==
    /\ impl = "vercel"
    /\ req.method = "OPTIONS"
    /\ req.id = ""
    /\ Sent(200)
    /\ res.finished

(***************************************************************************)
(* C16: a request whose method is neither GET nor OPTIONS is answered with *)
(* 405, with or without an id.                                             *)
(***************************************************************************)
C16_OtherMethods405 ==
    (req.method \notin {"GET", "OPTIONS"} /\ pc # "start") =>
        /\ pc = "done"
        /\ Sent(405)
        /\ res.finished
        /\ res.body.error = "Method not allowed"
        /\ upstream = <<>>

C16_Witness ==
    /\ impl = "vercel"
    /\ req.method = "POST"
    /\ req.id = ""
    /\ Sent(405)

\* the state of the per-request state machine the handler is in
Phase ==
    IF pc \in {"start", "delay"} THEN "START"
    ELSE IF pc = "getInfo" THEN "RESOLVING"
    ELSE IF pc = "resolved" THEN "RESOLVED"
    ELSE IF pc = "probe" THEN "PROBING"
    ELSE IF stream = "ended" THEN "STREAMED"
    ELSE IF stream = "errored" \/ caught.src \in YtdlSources THEN "STREAM_ERROR"
    ELSE IF Sent(302) THEN "REDIRECTING"
    ELSE IF pc \in {"proxy", "open", "piping"} THEN "STREAMING"
    ELSE IF caught # NoError THEN "FAILED_RESOLUTION"
    ELSE "REJECTED"

\* the transitions the state machine lists
ListedTransitions ==
    { <<"START", "RESOLVING">>,
      <<"RESOLVING", "RESOLVED">>, <<"RESOLVING", "FAILED_RESOLUTION">>,
      <<"RESOLVED", "PROBING">>,
      <<"PROBING", "REDIRECTING">>, <<"PROBING", "STREAMING">>,
      <<"STREAMING", "STREAMED">>, <<"STREAMING", "STREAM_ERROR">> }

\* a GET request with an id, the requests that get past the preamble
Admitted == impl = "vercel" /\ req.method = "GET" /\ req.id # ""

(***************************************************************************)
(* C17 as stated: every step of an admitted request either stays in its    *)
(* state or follows one of the listed transitions.                         *)
(***************************************************************************)
C17_OnlyListedTransitions ==
    [][Admitted => (Phase' = Phase \/ <<Phase, Phase'>> \in ListedTransitions)]_vars

(***************************************************************************)
(* C17 amended: every step of an admitted request stays in its state,      *)
(* follows a listed transition, or goes from RESOLVED straight to          *)
(* STREAMING, which happens exactly when no format with a url was picked   *)
(* and so no probe is sent.                                                *)
(***************************************************************************)
C17_TransitionsWithProbeSkip ==
    [][Admitted =>
        \/ Phase' = Phase
        \/ <<Phase, Phase'>> \in ListedTransitions
        \/ /\ Phase = "RESOLVED"
           /\ Phase' = "STREAMING"
           /\ fmt'.url = ""
           /\ CallsOf("head")' = <<>>]_vars

C17_Witness ==
    /\ Admitted
    /\ Phase = "STREAMING"
    /\ stream = "open"
    /\ fmt.url = ""
    /\ head = NoHead
    /\ CallsOf("head") = <<>>

\* the handler has nothing left to do: it returned, or its stream is over
HandlerAtRest == pc = "done" \/ stream \in {"ended", "errored"}

(***************************************************************************)
(* C18: whenever the handler of a request has come to rest, after a        *)
(* resolution error, a probe failure, a stream-creation error or a         *)
(* mid-stream error, its response has been ended.                          *)
(***************************************************************************)
C18_EveryFailureCompletes ==
    (impl = "vercel" /\ HandlerAtRest) => res.finished

\* the bodies the handlers can send, all of them constants of the source
ConstantBodies ==
    { NoBody,
      [error |-> "Method not allowed", code |-> ""],
      [error |-> "Video ID is required", code |-> ""],
      [error |-> "YouTube bot detection triggered. Please try again later.",
       code |-> "BOT_DETECTED"],
      [error |-> "Video not found or unavailable", code |-> ""],
      [error |-> "Internal server error", code |-> ""],
      [error |-> "Stream error occurred", code |-> ""],
      [error |-> "Stream not found", code |-> ""] }

\* status and body for a caught error, from its classification alone
ClassifiedAnswer(im, bot, unavail) ==
    IF im = "fastify" THEN <<404, "Stream not found", "">>
    ELSE IF bot
    THEN <<429, "YouTube bot detection triggered. Please try again later.",
           "BOT_DETECTED">>
    ELSE IF unavail THEN <<404, "Video not found or unavailable", "">>
    ELSE <<500, "Internal server error", "">>

(***************************************************************************)
(* C19: every body is one of a fixed set of constants, and the status and  *)
(* body sent for an error are determined by the classification of the      *)
(* error alone: they are the same whatever call raised it, whatever the    *)
(* rest of its message and whatever user agent the request used.           *)
(***************************************************************************)
C19_NoDiagnosticInBody ==
    /\ res.body \in ConstantBodies
    /\ caught # NoError =>
        <<res.statusCode, res.body.error, res.body.code>>
            = ClassifiedAnswer(impl, caught.bot, caught.unavail)
    /\ (stream = "errored" /\ res.finished) =>
        <<res.statusCode, res.body.error, res.body.code>>
            = <<500, "Stream error occurred", "">>

C19_Witness ==
    /\ impl = "vercel"
    /\ caught = Err(FALSE, FALSE, "ytdl3")
    /\ userAgent = NumUserAgents
    /\ Sent(500)
    /\ res.body.error = "Internal server error"

(***************************************************************************)
(* C20: every response whose headers have been sent, whatever its status,  *)
(* carries Access-Control-Allow-Origin: *.                                 *)
(***************************************************************************)
C20_EveryResponseHasAcao ==
    res.headersSent => res.headers["Access-Control-Allow-Origin"] = "*"

(***************************************************************************)
(* C21: once the headers of a response have been sent, no step changes its *)
(* status, headers or body, and once it has been ended no step touches it; *)
(* a redirected request never opens a stream.                              *)
(***************************************************************************)
C21_OneStatusPerRequest ==
    [][/\ res.headersSent =>
            /\ res'.headersSent
            /\ res'.statusCode = res.statusCode
            /\ res'.headers = res.headers
            /\ res'.body = res.body
       /\ res.finished => res' = res
       /\ Sent(302) => (stream' = "none" /\ CallsOf("ytdl")' = <<>>)]_vars

C21_Witness ==
    /\ impl = "vercel"
    /\ stream = "errored"
    /\ res.chunks > 0
    /\ res.headersSent
    /\ res.statusCode = 200
    /\ res.body = NoBody

\* the place of a kind of upstream call in the pipeline
StageOf(op) == IF op = "getInfo" THEN 1 ELSE IF op = "head" THEN 2 ELSE 3

\* the probe step is over and did not redirect, or there was nothing to probe
ProbePassedOrSkipped ==
    IF fmt.url = ""
    THEN head = NoHead /\ CallsOf("head") = <<>>
    ELSE /\ Len(CallsOf("head")) = 1
         /\ head = HeadThrew \/ (head # NoHead /\ ~Reachable(head))

(***************************************************************************)
(* C22: at most one probe is sent, only after the metadata resolved and a  *)
(* format with a url was selected, and to that url; a stream is opened     *)
(* only after the probe step ended without a redirect or was skipped; in   *)
(* the order of the upstream calls every metadata call comes before the    *)
(* probe and the probe before every stream-open call.                      *)
(***************************************************************************)
C22_ProbeAndOpenOrder ==
    /\ Len(CallsOf("head")) <= 1
    /\ CallsOf("head") # <<>> =>
        /\ resolved
        /\ attempts[Len(attempts)].outcome = "ok"
        /\ fmt = pickAudioFormat(info)
        /\ fmt.url # ""
        /\ CallsOf("head")[1].url = fmt.url
    /\ CallsOf("ytdl") # <<>> =>
        /\ resolved
        /\ attempts[Len(attempts)].outcome = "ok"
        /\ ~Sent(302)
        /\ ProbePassedOrSkipped
    /\ \A j, k \in 1..Len(upstream) :
        j < k => StageOf(upstream[j].op) <= StageOf(upstream[k].op)

C22_Witness ==
    /\ impl = "vercel"
    /\ Len(CallsOf("getInfo")) = 2
    /\ Len(CallsOf("head")) = 1
    /\ head = 404
    /\ Len(CallsOf("ytdl")) = 2
    /\ stream = "open"

\* the request is one the preamble answers
RejectedByPreamble == req.method # "GET" \/ req.id = ""

\* the status the preamble gives, its checks taken in the order of the code
PreambleStatus ==
    IF req.method = "OPTIONS" THEN 200
    ELSE IF req.method # "GET" THEN 405
    ELSE 400

(***************************************************************************)
(* C23: a request answered by the preamble is answered in one step, with   *)
(* 200 for OPTIONS, else 405 for a method other than GET, else 400 for a   *)
(* missing id; it waits for no delay, draws no user agent, makes no        *)
(* upstream call, opens no stream and sets none of the proxy headers.      *)
(***************************************************************************)
C23_PreambleRejectsWithoutEffects ==
    (impl \in {"vercel", "legacy"} /\ RejectedByPreamble /\ pc # "start") =>
        /\ pc = "done"
        /\ Sent(PreambleStatus)
        /\ res.finished
        /\ upstream = <<>>
        /\ attempts = <<>>
        /\ userAgent = 0
        /\ ~resolved
        /\ stream = "none"
        /\ res.chunks = 0
        /\ res.headers["Accept-Ranges"] = ""
        /\ res.headers["Content-Range"] = ""
        /\ res.headers["Content-Type"] # "audio/webm"
        /\ res.headers["Location"] = ""

C23_Witness ==
    /\ impl = "legacy"
    /\ req.method = "POST"
    /\ req.id = ""
    /\ req.range # ""
    /\ Sent(405)
    /\ upstream = <<>>
    /\ res.headers["Content-Range"] = ""

\* the upstream calls that carry a User-Agent header
CallsWithUserAgent == SelectSeq(upstream, LAMBDA c : c.ua # 0)

(***************************************************************************)
(* C24: the user agent is drawn from the USER_AGENTS table together with   *)
(* the first metadata attempt and not before; every metadata and           *)
(* stream-creation call made with the full or the minimal headers carries  *)
(* that one value, the calls without options carry none, so no two calls   *)
(* of a request carry different user agents.                               *)
(***************************************************************************)
C24_OneUserAgentPerRequest ==
    impl = "vercel" =>
        /\ userAgent \in 0..NumUserAgents
        /\ userAgent = 0 <=> upstream = <<>>
        /\ pc \in {"start", "delay"} => userAgent = 0
        /\ \A k \in 1..Len(upstream) :
            upstream[k].op \in {"getInfo", "ytdl"} =>
                upstream[k].ua = IF upstream[k].n < 3 THEN userAgent ELSE 0
        /\ \A k \in 1..Len(CallsWithUserAgent) :
            /\ CallsWithUserAgent[k].ua \in 1..NumUserAgents
            /\ CallsWithUserAgent[k].ua = CallsWithUserAgent[1].ua

C24_Witness ==
    /\ impl = "vercel"
    /\ userAgent = 3
    /\ Len(CallsOf("getInfo")) = 2
    /\ Len(CallsOf("ytdl")) = 2
    /\ Len(CallsWithUserAgent) = 4
    /\ \A k \in 1..4 : CallsWithUserAgent[k].ua = 3

====
